---------------------------- MODULE Spec2Model ----------------------------
(***************************************************************************)
(* The vocabulary-frequency cells of the scikit-learn CountVectorizer      *)
(* notebook, as a state machine over the notebook kernel's globals.        *)
(*                                                                         *)
(* A term is a natural number: its rank in alphabetical order.  A document *)
(* is the sequence of its tokens, each a term.  A document-term matrix is  *)
(* a record [shape, rows]; shape = <<R, C>> is kept beside the rows        *)
(* because a matrix without rows still has C columns.                      *)
(* A Python dict is its sequence of (key, value) items in insertion order  *)
(* (Python 3.7, the notebook's kernel).  Python indices are 0-based; the   *)
(* sequences here are 1-based, so Python's s[x] is s[x + 1].               *)
(*                                                                         *)
(* The part-of-speech cell of the spaCy notebook runs in a kernel of its   *)
(* own: doc2 is the sequence of its tokens, each a record [text, pos_].    *)
(***************************************************************************)
EXTENDS Integers, Sequences, FiniteSets

VARIABLES
    cv,         \* the global cv: [state, names]; state is "unbound", "unfitted"
                \* or "fitted", names is cv.get_feature_names() once fitted
    all_docs,   \* the global all_docs: [defined, docs]
    dtm,        \* the global dtm: [defined, shape |-> <<R, C>>, rows]
    dictVocab,  \* the global dictVocab: [defined, items]
    sortVocab,  \* the global sortVocab: [defined, items]
    cell,       \* the cell executed last, "none" in a fresh kernel
    exc,        \* the exception that ended it, or "none"
    stdout,     \* the (term, count) lines it printed
    runs,       \* history: the inputs and the ranked list of every run of the
                \* rank cell that reached its end, and whether it was repeated
    doc2,       \* spaCy notebook: the global doc2, a sequence of tokens
    nouns,      \* the global nouns: [defined, items]
    adjectives, \* the global adjectives: [defined, items]
    pc,         \* where the part-of-speech cell is: "idle", "nouns" (first
                \* loop), "adjectives" (second loop) or "done"
    item        \* how many tokens the running loop has taken from doc2

posVars == <<doc2, nouns, adjectives, pc, item>>

vars == <<cv, all_docs, dtm, dictVocab, sortVocab, cell, exc, stdout, runs,
          doc2, nouns, adjectives, pc, item>>

-----------------------------------------------------------------------------
(* Bounds of the model *)

MaxRows == 2

MaxCols == 2

MaxTokens == 3

NTerms == 2

MaxIdx == 4

(* Tokens of a document and distinct token texts in the part-of-speech cell *)
MaxDocLen == 3

NTexts == 2

(* The literal slice bounds of the two report cells *)

TopStop == 30

MidStart == 200

MidStop == 230
(* range(15) of the vocabulary preview *)
PreviewStop == 15

-----------------------------------------------------------------------------
(* Helpers *)

Min(a, b) == IF a < b THEN a ELSE b

Max(a, b) == IF a > b THEN a ELSE b

Terms == 1 .. NTerms

Range(s) == {s[i] : i \in 1 .. Len(s)}

Reverse(s) == [i \in 1 .. Len(s) |-> s[Len(s) + 1 - i]]

(* A name the kernel has not bound yet, and one bound to a list or dict *)
Unbound == [defined |-> FALSE, items |-> <<>>]

Bound(items) == [defined |-> TRUE, items |-> items]

NoDocs == [defined |-> FALSE, docs |-> <<>>]

NoMatrix == [defined |-> FALSE, shape |-> <<0, 0>>, rows |-> <<>>]

Matrix(R, C, rows) == [defined |-> TRUE, shape |-> <<R, C>>, rows |-> rows]

NoVectorizer == [state |-> "unbound", names |-> <<>>]

Unfitted == [state |-> "unfitted", names |-> <<>>]

Fitted(names) == [state |-> "fitted", names |-> names]

-----------------------------------------------------------------------------
(* dtm.toarray().sum(axis=0): the rows added up as vectors, zeros when     *)
(* there is no row.                                                        *)

RECURSIVE AddRows(_, _)
AddRows(rows, C) ==
    IF rows = <<>> THEN [x \in 1 .. C |-> 0]
    ELSE LET rest == AddRows(Tail(rows), C)
         IN  [x \in 1 .. C |-> Head(rows)[x] + rest[x]]

(* A slip: the counts of the first row alone, dtm.toarray()[0], not the sum *)
FirstRowOnly(m) ==
    IF m.rows = <<>> THEN [x \in 1 .. m.shape[2] |-> 0] ELSE Head(m.rows)

SumAxis0(m) == AddRows(m.rows, m.shape[2])

(* d[k] = v on a dict: an existing key keeps its place and takes the new   *)
(* value, a new key goes to the end.                                       *)
DictSet(d, k, v) ==
    IF \E i \in 1 .. Len(d) : d[i][1] = k
    THEN [i \in 1 .. Len(d) |-> IF d[i][1] = k THEN <<k, v>> ELSE d[i]]
    ELSE Append(d, <<k, v>>)

(* A slip: the loop stops silently at the end of names, as zip() would *)
RECURSIVE FillDictTruncating(_, _, _, _, _)
FillDictTruncating(d, v, sums, x, C) ==
    IF x >= C THEN [items |-> d, exc |-> "none"]
    ELSE IF v.state = "unbound" THEN [items |-> d, exc |-> "NameError"]
    ELSE IF v.state = "unfitted" THEN [items |-> d, exc |-> "NotFittedError"]
    ELSE IF x >= Len(v.names) THEN [items |-> d, exc |-> "none"]
    ELSE FillDictTruncating(DictSet(d, v.names[x + 1], sums[x + 1]),
                            v, sums, x + 1, C)

(* for x in range(dtm.shape[1]):                                           *)
(*     dictVocab[cv.get_feature_names()[x]] = dtm.toarray().sum(axis=0)[x] *)
(* from iteration x on, v being cv and sums the column sums.  Looking up   *)
(* cv raises NameError while cv is unbound, get_feature_names() raises     *)
(* NotFittedError before a fit, and [x] raises IndexError past the end of  *)
(* the names; the entries set before that stay in the dict.                *)
RECURSIVE FillDict(_, _, _, _, _)
FillDict(d, v, sums, x, C) ==
    IF x >= C THEN [items |-> d, exc |-> "none"]
    ELSE IF v.state = "unbound" THEN [items |-> d, exc |-> "NameError"]
    ELSE IF v.state = "unfitted" THEN [items |-> d, exc |-> "NotFittedError"]
    ELSE IF x >= Len(v.names) THEN [items |-> d, exc |-> "IndexError"]
    ELSE FillDict(DictSet(d, v.names[x + 1], sums[x + 1]), v, sums, x + 1, C)

(* A slip: the preview stops silently at the end of the names, as          *)
(* range(min(15, len(names))) would                                        *)
RECURSIVE PrintPreviewClamped(_, _, _, _, _)
PrintPreviewClamped(out, v, m, x, stop) ==
    IF x >= stop THEN [out |-> out, exc |-> "none"]
    ELSE IF v.state = "unbound" THEN [out |-> out, exc |-> "NameError"]
    ELSE IF v.state = "unfitted" THEN [out |-> out, exc |-> "NotFittedError"]
    ELSE IF x >= Len(v.names) THEN [out |-> out, exc |-> "none"]
    ELSE IF ~m.defined THEN [out |-> out, exc |-> "NameError"]
    ELSE IF x >= m.shape[2] THEN [out |-> out, exc |-> "IndexError"]
    ELSE PrintPreviewClamped(out \o << <<v.names[x + 1], SumAxis0(m)[x + 1]>>, <<>> >>,
                             v, m, x + 1, stop)

(* for x in range(15):                                                     *)
(*     print(str(cv.get_feature_names()[x]) + ": "                         *)
(*           + str(dtm.toarray().sum(axis=0)[x]) + "\n")                   *)
(* from iteration x on, v being cv and m being dtm.  The argument is       *)
(* evaluated left to right: cv (NameError), get_feature_names()            *)
(* (NotFittedError), [x] (IndexError), then dtm (NameError) and [x] on the *)
(* column sums (IndexError).  Each print writes the term with its count    *)
(* and, for the "\n" the string ends with, an empty line; what was         *)
(* printed before an exception stays printed.                              *)
RECURSIVE PrintPreview(_, _, _, _, _)
PrintPreview(out, v, m, x, stop) ==
    IF x >= stop THEN [out |-> out, exc |-> "none"]
    ELSE IF v.state = "unbound" THEN [out |-> out, exc |-> "NameError"]
    ELSE IF v.state = "unfitted" THEN [out |-> out, exc |-> "NotFittedError"]
    ELSE IF x >= Len(v.names) THEN [out |-> out, exc |-> "IndexError"]
    ELSE IF ~m.defined THEN [out |-> out, exc |-> "NameError"]
    ELSE IF x >= m.shape[2] THEN [out |-> out, exc |-> "IndexError"]
    ELSE PrintPreview(out \o << <<v.names[x + 1], SumAxis0(m)[x + 1]>>, <<>> >>,
                      v, m, x + 1, stop)

(* A slip: the dict is not emptied, the loop adds to what earlier runs left *)
StaleDict == dictVocab.items

(* The dict the loop starts from: dictVocab = {} *)
FreshDict == <<>>

(* A slip: an item whose count is already there is dropped, as when the    *)
(* items are keyed by count                                                *)
InsertAscKeyedByCount(s, e) ==
    IF \E i \in 1 .. Len(s) : s[i][2] = e[2] THEN s
    ELSE LET n == Cardinality({i \in 1 .. Len(s) : s[i][2] < e[2]})
         IN  SubSeq(s, 1, n) \o <<e>> \o SubSeq(s, n + 1, Len(s))

(* A stable ascending sort by count (x[1] of an item): each item is put    *)
(* behind the items whose count is not larger.                             *)
InsertAsc(s, e) ==
    LET n == Cardinality({i \in 1 .. Len(s) : s[i][2] <= e[2]})
    IN  SubSeq(s, 1, n) \o <<e>> \o SubSeq(s, n + 1, Len(s))

RECURSIVE StableAsc(_)
StableAsc(s) ==
    IF s = <<>> THEN <<>>
    ELSE InsertAsc(StableAsc(SubSeq(s, 1, Len(s) - 1)), s[Len(s)])

(* A slip: reverse is ignored, the order is ascending *)
SortedIgnoringReverse(items, reverse) == StableAsc(items)

(* A slip: sorted(...)[::-1], which turns the order of equal counts round *)
SortedThenReversed(items, reverse) ==
    IF reverse THEN Reverse(StableAsc(items)) ELSE StableAsc(items)

(* sorted(items, key=lambda x: x[1], reverse=...): with reverse the list   *)
(* is reversed, sorted stably ascending and reversed again, which keeps    *)
(* equal counts in their input order.                                      *)
Sorted(items, reverse) ==
    IF reverse THEN Reverse(StableAsc(Reverse(items))) ELSE StableAsc(items)

(* s[start:stop] on a list: a negative index counts from the end, and both *)
(* indices are clamped to 0 .. len(s); it never raises.                    *)
SliceIndex(i, L) == IF i < 0 THEN Max(i + L, 0) ELSE Min(i, L)

(* A slip: a slice that reaches past either end comes back empty *)
PySliceStrict(s, start, stop) ==
    IF start < 0 \/ stop < 0 \/ start > Len(s) \/ stop > Len(s) THEN <<>>
    ELSE IF start < stop THEN SubSeq(s, start + 1, stop) ELSE <<>>

(* A slip: stop is taken as the last index, not the one after it *)
PySliceInclusive(s, start, stop) ==
    LET lo == SliceIndex(start, Len(s))
        hi == Min(SliceIndex(stop, Len(s)) + 1, Len(s))
    IN  IF lo < hi THEN SubSeq(s, lo + 1, hi) ELSE <<>>

(* A slip: s[:stop - start], the right length from the wrong place *)
PySliceFromTop(s, start, stop) ==
    LET lo == SliceIndex(start, Len(s))
        hi == SliceIndex(stop, Len(s))
    IN  IF lo < hi THEN SubSeq(s, 1, hi - lo) ELSE <<>>

PySlice(s, start, stop) ==
    LET lo == SliceIndex(start, Len(s))
        hi == SliceIndex(stop, Len(s))
    IN  IF lo < hi THEN SubSeq(s, lo + 1, hi) ELSE <<>>

-----------------------------------------------------------------------------
(* The inputs: any matrix of counts for a corpus of at most MaxTokens      *)
(* tokens, and any list of distinct terms as the vectorizer's feature      *)
(* names.                                                                  *)

RECURSIVE SumSeq(_)
SumSeq(s) == IF s = <<>> THEN 0 ELSE Head(s) + SumSeq(Tail(s))

(* The rows of C counts that hold at most n tokens *)
RowsWithin(C, n) == {r \in [1 .. C -> 0 .. n] : SumSeq(r) <= n}

(* The lists of R such rows that hold at most n tokens together *)
RECURSIVE RowLists(_, _, _)
RowLists(R, C, n) ==
    IF R = 0 THEN {<<>>}
    ELSE UNION {{<<row>> \o rest : rest \in RowLists(R - 1, C, n - SumSeq(row))} :
                    row \in RowsWithin(C, n)}

Matrices ==
    UNION {{Matrix(R, C, rows) : rows \in RowLists(R, C, MaxTokens)} :
              <<R, C>> \in (0 .. MaxRows) \X (0 .. MaxCols)}

Vocabularies ==
    {v \in UNION {[1 .. n -> Terms] : n \in 0 .. NTerms} :
        \A i, j \in 1 .. Len(v) : v[i] = v[j] => i = j}

(* The worked example: rows [[2,0,1],[1,1,1]], vocabulary cat, dog, sun *)
ExampleDtm == Matrix(2, 3, <<<<2, 0, 1>>, <<1, 1, 1>>>>)

ExampleNames == <<1, 2, 3>>

(* A corpus of one document with more terms than the preview prints *)
WideNames == [x \in 1 .. PreviewStop + 1 |-> x]

WideDtm ==
    Matrix(1, PreviewStop + 1,
           <<[x \in 1 .. PreviewStop + 1 |-> IF x = 3 THEN 2 ELSE 1]>>)

(* The history after one more run of the rank cell on matrix m and names   *)
(* v that ended with the ranked list l: a run that repeats a recorded one  *)
(* marks it, any other run is added.                                       *)
Logged(log, m, v, l) ==
    IF \E r \in log : r.dtm = m /\ r.names = v /\ r.ranked = l
    THEN {IF r.dtm = m /\ r.names = v /\ r.ranked = l
          THEN [r EXCEPT !.again = TRUE] ELSE r : r \in log}
    ELSE log \cup {[dtm |-> m, names |-> v, ranked |-> l, again |-> FALSE]}

(* The spaCy kernel before its part-of-speech cell runs *)
PosIdle ==
    /\ doc2 = <<>>
    /\ nouns = Unbound
    /\ adjectives = Unbound
    /\ pc = "idle"
    /\ item = 0

(* The kernel after the cells above the rank cell have run, with any       *)
(* matrix and any feature names.                                           *)
Init ==
    /\ \E m \in Matrices \cup {ExampleDtm, WideDtm},
          v \in Vocabularies \cup {ExampleNames, WideNames} :
        /\ dtm = m
        /\ cv = Fitted(v)
    /\ all_docs = NoDocs
    /\ dictVocab = Unbound
    /\ sortVocab = Unbound
    /\ cell = "none"
    /\ exc = "none"
    /\ stdout = <<>>
    /\ runs = {}
    /\ PosIdle

-----------------------------------------------------------------------------
(* A slip: the table is sorted in place, dictVocab = dict(sorted(...)) *)
RankCellSortingInPlace ==
    LET r == IF dtm.defined
             THEN FillDict(FreshDict, cv, SumAxis0(dtm), 0, dtm.shape[2])
             ELSE [items |-> FreshDict, exc |-> "NameError"]
        sorted == Sorted(r.items, TRUE)
    IN  /\ cell' = "rank"
        /\ exc' = r.exc
        /\ IF r.exc = "none"
           THEN /\ dictVocab' = Bound(sorted)
                /\ sortVocab' = Bound(sorted)
                /\ stdout' = PySlice(sorted, 0, TopStop)
                /\ runs' = Logged(runs, dtm, cv.names, sorted)
           ELSE /\ dictVocab' = Bound(r.items)
                /\ sortVocab' = sortVocab
                /\ stdout' = <<>>
                /\ runs' = runs
        /\ UNCHANGED <<cv, all_docs, dtm>>
        /\ UNCHANGED posVars

(* The cell that builds dictVocab, sorts it into sortVocab and prints the  *)
(* top 30.  dictVocab = {} comes first; dtm.shape raises NameError while   *)
(* dtm is unbound.  An exception ends the cell: sortVocab keeps its old    *)
(* binding and nothing is printed.                                         *)
RankCell ==
    LET r == IF dtm.defined
             THEN FillDict(FreshDict, cv, SumAxis0(dtm), 0, dtm.shape[2])
             ELSE [items |-> FreshDict, exc |-> "NameError"]
        sorted == Sorted(r.items, TRUE)
    IN  /\ cell' = "rank"
        /\ dictVocab' = Bound(r.items)
        /\ exc' = r.exc
        /\ IF r.exc = "none"
           THEN /\ sortVocab' = Bound(sorted)
                /\ stdout' = PySlice(sorted, 0, TopStop)
                /\ runs' = Logged(runs, dtm, cv.names, sorted)
           ELSE /\ sortVocab' = sortVocab
                /\ stdout' = <<>>
                /\ runs' = runs
        /\ UNCHANGED <<cv, all_docs, dtm>>
        /\ UNCHANGED posVars

(* The cell that previews the vocabulary: the first 15 terms with their    *)
(* counts.  It binds nothing.                                              *)
PreviewCell ==
    LET r == PrintPreview(<<>>, cv, dtm, 0, PreviewStop)
    IN  /\ cell' = "preview"
        /\ exc' = r.exc
        /\ stdout' = r.out
        /\ UNCHANGED <<cv, all_docs, dtm, dictVocab, sortVocab, runs>>
        /\ UNCHANGED posVars

(* The cell that prints sortVocab[200:230]; NameError before sortVocab is  *)
(* bound.                                                                  *)
SliceCell ==
    /\ cell' = "slice"
    /\ IF sortVocab.defined
       THEN /\ exc' = "none"
            /\ stdout' = PySlice(sortVocab.items, MidStart, MidStop)
       ELSE /\ exc' = "NameError"
            /\ stdout' = <<>>
    /\ UNCHANGED <<cv, all_docs, dtm, dictVocab, sortVocab, runs>>
    /\ UNCHANGED posVars

Next == PreviewCell \/ RankCell \/ SliceCell

Spec == Init /\ [][Next]_vars

-----------------------------------------------------------------------------
(* The notebook from a fresh kernel: its cells run in any order, any       *)
(* number of times.                                                        *)

(* What ./lyrics/ may hold when the corpus is read: no file; "cat sun cat" *)
(* and "cat dog sun" (the matrix of the worked example); "dog cat"; "dog"; *)
(* "sun dog" and "sun"; one file without a token.                          *)
Corpora ==
    { <<>>,
      <<<<1, 3, 1>>, <<1, 2, 3>>>>,
      <<<<2, 1>>>>,
      <<<<2>>>>,
      <<<<3, 2>>, <<3>>>>,
      <<<<>>>> }

(* The terms of a set in alphabetical order *)
SortedTerms(S) ==
    [i \in 1 .. Cardinality(S) |->
        CHOOSE t \in S : Cardinality({u \in S : u < t}) = i - 1]

(* The vocabulary CountVectorizer learns: the distinct tokens of the       *)
(* documents, in alphabetical order.                                       *)
Vocabulary(docs) ==
    SortedTerms(UNION {Range(docs[r]) : r \in 1 .. Len(docs)})

(* The matrix it returns: one row per document, one column per vocabulary  *)
(* term, holding the number of times the term occurs in the document.      *)
CountMatrix(docs, names) ==
    Matrix(Len(docs), Len(names),
           [r \in 1 .. Len(docs) |->
               [c \in 1 .. Len(names) |->
                   Cardinality({i \in 1 .. Len(docs[r]) : docs[r][i] = names[c]})]])

KernelInit ==
    /\ cv = NoVectorizer
    /\ all_docs = NoDocs
    /\ dtm = NoMatrix
    /\ dictVocab = Unbound
    /\ sortVocab = Unbound
    /\ cell = "none"
    /\ exc = "none"
    /\ stdout = <<>>
    /\ runs = {}
    /\ PosIdle

(* cv=CountVectorizer(): a new vectorizer, not fitted *)
InstantiateCell ==
    /\ cell' = "instantiate"
    /\ cv' = Unfitted
    /\ exc' = "none"
    /\ stdout' = <<>>
    /\ UNCHANGED <<all_docs, dtm, dictVocab, sortVocab, runs>>
    /\ UNCHANGED posVars

(* The cell that reads every file of ./lyrics/ into all_docs and then      *)
(* prints docs[0], which raises IndexError when the directory is empty.    *)
LoadCell ==
    \E files \in Corpora :
        /\ cell' = "load"
        /\ all_docs' = [defined |-> TRUE, docs |-> files]
        /\ exc' = IF files = <<>> THEN "IndexError" ELSE "none"
        /\ stdout' = <<>>
        /\ UNCHANGED <<cv, dtm, dictVocab, sortVocab, runs>>
        /\ UNCHANGED posVars

(* dtm=cv.fit_transform(all_docs): NameError while cv or all_docs is       *)
(* unbound; ValueError (empty vocabulary) when the documents hold no       *)
(* token, before the vectorizer or dtm is touched.                         *)
FitCell ==
    /\ cell' = "fit"
    /\ stdout' = <<>>
    /\ IF cv.state = "unbound" \/ ~all_docs.defined
       THEN /\ exc' = "NameError"
            /\ UNCHANGED <<cv, dtm>>
       ELSE LET names == Vocabulary(all_docs.docs)
            IN  IF names = <<>>
                THEN /\ exc' = "ValueError"
                     /\ UNCHANGED <<cv, dtm>>
                ELSE /\ exc' = "none"
                     /\ cv' = Fitted(names)
                     /\ dtm' = CountMatrix(all_docs.docs, names)
    /\ UNCHANGED <<all_docs, dictVocab, sortVocab, runs>>
    /\ UNCHANGED posVars

KernelNext ==
    InstantiateCell \/ LoadCell \/ FitCell \/ PreviewCell \/ RankCell \/ SliceCell

KernelSpec == KernelInit /\ [][KernelNext]_vars

-----------------------------------------------------------------------------
(* The part-of-speech cell of the spaCy notebook, one loop iteration per   *)
(* step.                                                                   *)

(* The coarse tags of the tokens: the two the cell tests and one other *)
Tags == {"NOUN", "ADJ", "VERB"}

Tokens == [text : 1 .. NTexts, pos_ : Tags]

Docs == UNION {[1 .. n -> Tokens] : n \in 0 .. MaxDocLen}

(* A slip: every token with the tag is appended, seen before or not *)
ExtractStepAppendingAll(list, token, tag) ==
    IF token.pos_ = tag THEN Append(list, token.text) ELSE list

(* if item.pos_ == tag and item.text not in list: list.append(item.text) *)
ExtractStep(list, token, tag) ==
    IF token.pos_ = tag /\ token.text \notin Range(list)
    THEN Append(list, token.text)
    ELSE list

(* The notebook's other cells bind nothing the cell reads but doc2 *)
PosInit ==
    /\ doc2 \in Docs
    /\ nouns = Unbound
    /\ adjectives = Unbound
    /\ pc = "idle"
    /\ item = 0
    /\ cv = NoVectorizer
    /\ all_docs = NoDocs
    /\ dtm = NoMatrix
    /\ dictVocab = Unbound
    /\ sortVocab = Unbound
    /\ cell = "none"
    /\ exc = "none"
    /\ stdout = <<>>
    /\ runs = {}

PosFrame == UNCHANGED <<cv, all_docs, dtm, dictVocab, sortVocab, cell, exc, runs>>

(* nouns = [] and adjectives = []: the cell starts, or is run again *)
StartPosCell ==
    /\ pc \in {"idle", "done"}
    /\ nouns' = Bound(<<>>)
    /\ adjectives' = Bound(<<>>)
    /\ pc' = "nouns"
    /\ item' = 0
    /\ stdout' = <<>>
    /\ UNCHANGED doc2
    /\ PosFrame

(* One iteration of the first for item in doc2 *)
NounIteration ==
    /\ pc = "nouns"
    /\ item < Len(doc2)
    /\ nouns' = Bound(ExtractStep(nouns.items, doc2[item + 1], "NOUN"))
    /\ item' = item + 1
    /\ UNCHANGED <<doc2, adjectives, pc, stdout>>
    /\ PosFrame

(* The first loop is exhausted, the second starts *)
NounLoopEnd ==
    /\ pc = "nouns"
    /\ item = Len(doc2)
    /\ pc' = "adjectives"
    /\ item' = 0
    /\ UNCHANGED <<doc2, nouns, adjectives, stdout>>
    /\ PosFrame

(* One iteration of the second for item in doc2 *)
AdjectiveIteration ==
    /\ pc = "adjectives"
    /\ item < Len(doc2)
    /\ adjectives' = Bound(ExtractStep(adjectives.items, doc2[item + 1], "ADJ"))
    /\ item' = item + 1
    /\ UNCHANGED <<doc2, nouns, pc, stdout>>
    /\ PosFrame

(* The second loop is exhausted: the two lists are printed *)
AdjectiveLoopEnd ==
    /\ pc = "adjectives"
    /\ item = Len(doc2)
    /\ pc' = "done"
    /\ stdout' = <<nouns.items, adjectives.items>>
    /\ UNCHANGED <<doc2, nouns, adjectives, item>>
    /\ PosFrame

PosNext ==
    \/ StartPosCell
    \/ NounIteration
    \/ NounLoopEnd
    \/ AdjectiveIteration
    \/ AdjectiveLoopEnd

PosSpec == PosInit /\ [][PosNext]_vars

-----------------------------------------------------------------------------
(* What the claims speak of *)

Names == cv.names

NRows == dtm.shape[1]

NCols == dtm.shape[2]

(* The rank cell has just run to its end *)
RankDone == cell = "rank" /\ exc = "none"

(* The sum of column x of the matrix, row by row from the top *)
ColumnTotal(x) ==
    LET S[r \in 0 .. NRows] == IF r = 0 THEN 0 ELSE S[r - 1] + dtm.rows[r][x]
    IN  S[NRows]

(* The number of times e occurs in s *)
Occurrences(s, e) == Cardinality({i \in 1 .. Len(s) : s[i] = e})

(* The place of term t in the vocabulary *)
VocabIndex(t) == CHOOSE i \in 1 .. Len(Names) : Names[i] = t

(* The slice arguments the slicing claims range over *)
Idx == (0 - MaxIdx) .. MaxIdx

(* C1: with as many vocabulary terms as columns, aggregate returns one     *)
(* entry per vocabulary term, in vocabulary order, whose count is the sum  *)
(* of the term's column over all rows; the worked example gives cat:3,     *)
(* dog:1, sun:2.                                                           *)
C1_AggregateColumnSums ==
    /\ (cell = "rank" /\ Len(Names) = NCols) =>
          /\ exc = "none"
          /\ dictVocab.defined
          /\ Len(dictVocab.items) = NCols
          /\ \A x \in 1 .. NCols :
                dictVocab.items[x] = <<Names[x], ColumnTotal(x)>>
    /\ (cell = "rank" /\ dtm = ExampleDtm /\ Names = ExampleNames) =>
          dictVocab.items = <<<<1, 3>>, <<2, 1>>, <<3, 2>>>>

C1_Witness ==
    /\ cell = "rank"
    /\ dtm = ExampleDtm
    /\ Names = ExampleNames
    /\ dictVocab.items = <<<<1, 3>>, <<2, 1>>, <<3, 2>>>>

(* C2: the ranked list is sorted non-increasing by count.                  *)
C2_RankNonIncreasing ==
    sortVocab.defined =>
        \A i, j \in 1 .. Len(sortVocab.items) :
            i < j => sortVocab.items[i][2] >= sortVocab.items[j][2]

C2_Witness ==
    /\ RankDone
    /\ Len(dictVocab.items) >= 2
    /\ dictVocab.items[1][2] < dictVocab.items[2][2]
    /\ sortVocab.items[1][2] > sortVocab.items[2][2]

(* C3: the ranked list has the length of the table and is a permutation of *)
(* its entries: every pair occurs as often in the one as in the other.     *)
C3_RankPermutation ==
    RankDone =>
        /\ Len(sortVocab.items) = Len(dictVocab.items)
        /\ \A e \in Range(dictVocab.items) \cup Range(sortVocab.items) :
              /\ Occurrences(sortVocab.items, e) = 1
              /\ Occurrences(dictVocab.items, e) = 1

C3_Witness ==
    /\ RankDone
    /\ Len(dictVocab.items) >= 2
    /\ dictVocab.items[1][2] = dictVocab.items[2][2]
    /\ sortVocab.items # <<>>

(* C4: of two terms with equal total counts, the one that comes first in   *)
(* the vocabulary comes first in the ranked list, under the descending     *)
(* order of the code.                                                      *)
C4_RankStable ==
    RankDone =>
        \A i, j \in 1 .. Len(sortVocab.items) :
            (i < j /\ sortVocab.items[i][2] = sortVocab.items[j][2]) =>
                VocabIndex(sortVocab.items[i][1]) < VocabIndex(sortVocab.items[j][1])

C4_Witness ==
    /\ RankDone
    /\ Len(sortVocab.items) >= 2
    /\ sortVocab.items[1][2] = sortVocab.items[2][2]
    /\ sortVocab.items[1][1] > sortVocab.items[2][1]

SliceOutcome(start, stop) ==
    IF PySlice(sortVocab.items, start, stop) = <<>> THEN "empty" ELSE "partial"

(* start or stop lies outside [0, L] *)
OutOfRange(start, stop, L) == start < 0 \/ start > L \/ stop < 0 \/ stop > L

(* C6 as claimed: every slice with start or end outside [0, L] ends the    *)
(* same way, with RangeError or with an empty sequence, never with a       *)
(* non-empty partial result.                                               *)
C6_OutOfRangeUniform ==
    sortVocab.defined =>
        LET outcomes == {SliceOutcome(a, b) :
                            <<a, b>> \in {<<a, b>> \in Idx \X Idx :
                                OutOfRange(a, b, Len(sortVocab.items))}}
        IN  outcomes \subseteq {"RangeError"} \/ outcomes \subseteq {"empty"}

(* The index a slice bound stands for: a negative one counts from the end, *)
(* and the result is kept within 0 .. L.                                   *)
Clamped(i, L) ==
    IF i < 0 THEN (IF i + L < 0 THEN 0 ELSE i + L)
    ELSE (IF i > L THEN L ELSE i)

(* C6 as amended: a slice with start or end outside [0, L] never fails; it *)
(* returns the entries at the ranks between the two bounds once each is    *)
(* clamped to [0, L], which is empty when no rank lies between them (the   *)
(* middle slice 200..230 of a list of at most 200 entries) and a non-empty *)
(* partial result otherwise.                                               *)
C6_OutOfRangeClamped ==
    /\ sortVocab.defined =>
          \A a, b \in Idx :
              OutOfRange(a, b, Len(sortVocab.items)) =>
                  LET lo == Clamped(a, Len(sortVocab.items))
                      hi == Clamped(b, Len(sortVocab.items))
                      got == PySlice(sortVocab.items, a, b)
                  IN  /\ Len(got) = (IF hi > lo THEN hi - lo ELSE 0)
                      /\ \A i \in 1 .. Len(got) : got[i] = sortVocab.items[lo + i]
    /\ (cell = "slice" /\ sortVocab.defined /\ Len(sortVocab.items) <= MidStart) =>
          exc = "none" /\ stdout = <<>>

C6_Witness ==
    /\ cell = "slice"
    /\ exc = "none"
    /\ Len(sortVocab.items) >= 2
    /\ stdout = <<>>
    /\ PySlice(sortVocab.items, 1, Len(sortVocab.items) + 1)
          = <<sortVocab.items[Len(sortVocab.items)]>>

(* C7: topN(n) for every n above the length returns the full ranked list,  *)
(* the top-30 report of a shorter list included.                           *)
C7_TopNBeyondLength ==
    /\ sortVocab.defined =>
          \A k \in 1 .. MaxIdx :
              PySlice(sortVocab.items, 0, Len(sortVocab.items) + k) = sortVocab.items
    /\ (RankDone /\ Len(sortVocab.items) < TopStop) => stdout = sortVocab.items

C7_Witness ==
    /\ RankDone
    /\ Len(sortVocab.items) >= 2
    /\ Len(sortVocab.items) < TopStop
    /\ stdout = sortVocab.items

(* C8: topN(0) is the empty sequence and topN(L) is the whole ranked list  *)
(* in its order, for every length L, 0 included.                           *)
C8_TopNZeroAndLength ==
    sortVocab.defined =>
        /\ PySlice(sortVocab.items, 0, 0) = <<>>
        /\ PySlice(sortVocab.items, 0, Len(sortVocab.items)) = sortVocab.items

C8_Witness ==
    /\ RankDone
    /\ Len(sortVocab.items) >= 2
    /\ PySlice(sortVocab.items, 0, Len(sortVocab.items)) = sortVocab.items
    /\ PySlice(sortVocab.items, 0, 0) = <<>>

(* C9: for 0 <= start <= end <= L, sliceRange(start, end) is the end-start *)
(* entries at ranks start .. end-1 in rank order; topN(n) is the slice     *)
(* from 0 to n, as the top-30 report prints it.                            *)
C9_SliceContiguous ==
    /\ sortVocab.defined =>
          \A a, b \in 0 .. Len(sortVocab.items) :
              a <= b =>
                  LET got == PySlice(sortVocab.items, a, b)
                  IN  /\ Len(got) = b - a
                      /\ \A i \in 1 .. b - a : got[i] = sortVocab.items[a + i]
    /\ RankDone =>
          /\ Len(stdout) = (IF Len(sortVocab.items) < TopStop
                            THEN Len(sortVocab.items) ELSE TopStop)
          /\ \A i \in 1 .. Len(stdout) : stdout[i] = sortVocab.items[i]

C9_Witness ==
    /\ RankDone
    /\ Len(sortVocab.items) >= 2
    /\ PySlice(sortVocab.items, 1, 2) = <<sortVocab.items[2]>>
    /\ stdout = sortVocab.items

(* C10: two runs of the rank cell on the same matrix and the same          *)
(* vocabulary give the same ranked list, pair by pair and place by place,  *)
(* tied terms included, whatever cells ran before or between them.         *)
C10_Deterministic ==
    \A a, b \in runs :
        (a.dtm = b.dtm /\ a.names = b.names) => a.ranked = b.ranked

C10_Witness ==
    /\ RankDone
    /\ Cardinality(runs) >= 3
    /\ \E r \in runs :
          /\ r.again
          /\ r.dtm = dtm
          /\ r.ranked = sortVocab.items
          /\ Len(r.ranked) >= 2
          /\ r.ranked[1][2] = r.ranked[2][2]

(* dict(ranked): the table whose entries are those of a ranked list, in    *)
(* the order of the list                                                   *)
RECURSIVE AsTable(_)
AsTable(l) ==
    IF l = <<>> THEN <<>>
    ELSE DictSet(AsTable(SubSeq(l, 1, Len(l) - 1)), l[Len(l)][1], l[Len(l)][2])

(* C11: ranking the table made of a ranked list, in its order, gives the   *)
(* same ranked list again.                                                 *)
C11_RankIdempotent ==
    RankDone =>
        Sorted(AsTable(Sorted(dictVocab.items, TRUE)), TRUE)
            = Sorted(dictVocab.items, TRUE)

C11_Witness ==
    /\ RankDone
    /\ Len(dictVocab.items) >= 2
    /\ dictVocab.items[1][2] = dictVocab.items[2][2]
    /\ Sorted(AsTable(sortVocab.items), TRUE) = sortVocab.items

(* C13: for a matrix without rows and as many vocabulary terms as columns, *)
(* every count of the table is zero and the ranked list holds the terms in *)
(* vocabulary order.                                                       *)
C13_EmptyMatrixKeepsOrder ==
    (cell = "rank" /\ NRows = 0 /\ Len(Names) = NCols) =>
        /\ exc = "none"
        /\ dictVocab.items = [x \in 1 .. NCols |-> <<Names[x], 0>>]
        /\ sortVocab.items = [x \in 1 .. NCols |-> <<Names[x], 0>>]

C13_Witness ==
    /\ RankDone
    /\ NRows = 0
    /\ NCols >= 2
    /\ Names = <<2, 1>>
    /\ sortVocab.items = <<<<2, 0>>, <<1, 0>>>>

(* The largest column sum of a matrix with at least one column *)
MaxColumnTotal ==
    CHOOSE t \in {ColumnTotal(x) : x \in 1 .. NCols} :
        \A x \in 1 .. NCols : ColumnTotal(x) <= t

(* C16: for every n from 0 to the length, each entry within the first n of *)
(* the ranked list counts at least as much as each entry after them; the   *)
(* first entry holds the largest column sum, and the top-30 report lists   *)
(* the entries with the highest counts.                                    *)
C16_TopNDominates ==
    RankDone =>
        /\ \A n \in 0 .. Len(sortVocab.items) :
              \A i \in 1 .. Len(PySlice(sortVocab.items, 0, n)) :
                  \A j \in n + 1 .. Len(sortVocab.items) :
                      PySlice(sortVocab.items, 0, n)[i][2] >= sortVocab.items[j][2]
        /\ (Len(Names) = NCols /\ NCols >= 1) =>
              sortVocab.items[1][2] = MaxColumnTotal
        /\ \A i \in 1 .. Len(stdout) :
              \A j \in 1 .. Len(dictVocab.items) :
                  Occurrences(stdout, dictVocab.items[j]) = 0 =>
                      stdout[i][2] >= dictVocab.items[j][2]
        /\ Len(stdout) = (IF Len(dictVocab.items) < TopStop
                          THEN Len(dictVocab.items) ELSE TopStop)

C16_Witness ==
    /\ RankDone
    /\ Len(Names) = NCols
    /\ NCols >= 2
    /\ ColumnTotal(1) < ColumnTotal(2)
    /\ sortVocab.items[1] = <<Names[2], MaxColumnTotal>>
    /\ stdout[1] = sortVocab.items[1]

(* C12: the rank cell leaves the matrix and the vectorizer as they are,    *)
(* and the table it leaves is in vocabulary order, not in ranked order:    *)
(* sorting made a new list.  The slice report leaves the matrix, the       *)
(* vectorizer, the table and the ranked list as they are, so it reads the  *)
(* list the top-30 report read.                                            *)
C12_NoSideEffects ==
    [][/\ cell' = "rank" =>
            /\ dtm' = dtm
            /\ cv' = cv
            /\ exc' = "none" =>
                  /\ \A x \in 1 .. Len(dictVocab'.items) :
                        dictVocab'.items[x][1] = cv.names[x]
                  /\ stdout' = PySlice(sortVocab'.items, 0, TopStop)
       /\ cell' = "slice" =>
            /\ dtm' = dtm
            /\ cv' = cv
            /\ dictVocab' = dictVocab
            /\ sortVocab' = sortVocab
            /\ exc' = "none" =>
                  stdout' = PySlice(sortVocab.items, MidStart, MidStop)
      ]_vars

C12_Witness ==
    /\ cell = "slice"
    /\ exc = "none"
    /\ Len(sortVocab.items) >= 2
    /\ sortVocab.items # dictVocab.items
    /\ \E r \in runs : r.ranked = sortVocab.items /\ r.dtm = dtm

(* The table and the ranked list of the matrix and the vocabulary the     *)
(* kernel holds now                                                        *)
CurrentTable == [x \in 1 .. NCols |-> <<Names[x], ColumnTotal(x)>>]

CurrentRanking == Sorted(CurrentTable, TRUE)

(* The corpus is fitted: dtm is bound and the vectorizer has its names *)
CorpusFitted == dtm.defined /\ cv.state = "fitted" /\ Len(Names) = NCols

(* C14: whatever cells ran before, a report that is printed for a fitted   *)
(* corpus reads the table and the ranked list of that corpus, never those  *)
(* of an earlier one.                                                      *)
C14_ReportsReadCurrentCorpus ==
    (cell \in {"rank", "slice"} /\ exc = "none" /\ CorpusFitted) =>
        /\ dictVocab.items = CurrentTable
        /\ sortVocab.items = CurrentRanking

(* What the cells do guarantee: the top-30 report reads the table and the  *)
(* ranked list of the matrix and vocabulary the kernel holds, because its  *)
(* cell builds both before it prints.  Fitting another corpus recomputes   *)
(* neither: the later slice report reads the ranked list the last          *)
(* completed run of the rank cell left, which is that of the corpus fitted *)
(* then.                                                                   *)
C14_OnlyRankCellRecomputes ==
    /\ (RankDone /\ CorpusFitted) =>
          /\ dictVocab.items = CurrentTable
          /\ sortVocab.items = CurrentRanking
          /\ stdout = PySlice(CurrentRanking, 0, TopStop)
    /\ sortVocab.defined =>
          \E r \in runs :
              /\ sortVocab.items = r.ranked
              /\ Len(r.names) = r.dtm.shape[2]
              /\ \A i \in 1 .. Len(r.ranked) :
                    \E x \in 1 .. Len(r.names) :
                        r.ranked[i] = <<r.names[x], SumAxis0(r.dtm)[x]>>

C14_Witness ==
    /\ cell = "slice"
    /\ exc = "none"
    /\ CorpusFitted
    /\ sortVocab.items # CurrentRanking
    /\ Len(sortVocab.items) # NCols
    /\ \E r \in runs : r.ranked = sortVocab.items /\ r.dtm # dtm

(* C15: whenever the rank cell has read the matrix, the shared vectorizer  *)
(* gives a vocabulary with one term per column of the matrix.              *)
C15_ColumnsMatchVocabulary ==
    (cell = "rank" /\ dtm.defined) =>
        cv.state = "fitted" /\ Len(Names) = NCols

(* What the cells do guarantee: whenever the vectorizer is fitted, the     *)
(* matrix is bound and has one column per term of its vocabulary.  After   *)
(* the vectorizer is instantiated anew it has no vocabulary while dtm      *)
(* keeps its columns: the rank cell then ends with NotFittedError and an   *)
(* empty dictVocab.                                                        *)
C15_FittedColumnsMatch ==
    /\ cv.state = "fitted" => (dtm.defined /\ Len(Names) = NCols /\ NCols >= 1)
    /\ (cell = "rank" /\ dtm.defined /\ cv.state = "unfitted") =>
          exc = "NotFittedError" /\ dictVocab.items = <<>>
    /\ (cell = "rank" /\ cv.state = "fitted") => exc = "none"

C15_Witness ==
    /\ cell = "rank"
    /\ dtm.defined
    /\ NCols >= 2
    /\ cv.state = "unfitted"
    /\ exc = "NotFittedError"
    /\ sortVocab.defined

-----------------------------------------------------------------------------
(* The lines of the preview that hold a term, the empty lines left out *)
PreviewEntries == SelectSeq(stdout, LAMBDA l : l # <<>>)

(* The table the rank cell builds when it runs in this state *)
TableFromHere == FillDict(FreshDict, cv, SumAxis0(dtm), 0, NCols).items

(* The terms the preview can print: the first 15 of those that have a name *)
(* and a column                                                            *)
PreviewLen == Min(PreviewStop, Min(Len(Names), NCols))

(* C17 as claimed: for every fitted corpus the preview ends normally with  *)
(* exactly 15 term lines, line x holding term x and the sum of column x.   *)
C17_PreviewPrintsFifteen ==
    (cell = "preview" /\ CorpusFitted) =>
        /\ exc = "none"
        /\ Len(PreviewEntries) = PreviewStop
        /\ \A x \in 1 .. PreviewStop :
              PreviewEntries[x] = <<Names[x], ColumnTotal(x)>>

(* C17 as amended: the preview prints, in increasing order of x, term x    *)
(* with the sum of column x, the count the table of the rank cell holds    *)
(* for it, each followed by an empty line.  It prints 15 terms and ends    *)
(* normally when the vocabulary has at least 15 terms; with V < 15 terms   *)
(* it prints V terms and ends with IndexError.                             *)
C17_PreviewPrintsAvailable ==
    (cell = "preview" /\ cv.state = "fitted" /\ dtm.defined) =>
        /\ Len(PreviewEntries) = PreviewLen
        /\ Len(stdout) = 2 * PreviewLen
        /\ \A x \in 1 .. PreviewLen :
              /\ stdout[2 * x - 1] = <<Names[x], ColumnTotal(x)>>
              /\ stdout[2 * x] = <<>>
              /\ TableFromHere[x] = stdout[2 * x - 1]
        /\ exc = IF PreviewLen = PreviewStop THEN "none" ELSE "IndexError"

C17_Witness ==
    /\ cell = "preview"
    /\ CorpusFitted
    /\ NCols >= 2
    /\ NCols < PreviewStop
    /\ exc = "IndexError"
    /\ Len(PreviewEntries) = NCols
    /\ dictVocab.defined
    /\ dictVocab.items = CurrentTable

(* A corpus of more than 15 terms: 15 are printed and the cell ends        *)
(* normally.                                                               *)
C17_WideVocabulary ==
    /\ cell = "preview"
    /\ CorpusFitted
    /\ NCols > PreviewStop
    /\ exc = "none"
    /\ Len(PreviewEntries) = PreviewStop

-----------------------------------------------------------------------------
(* The tokens among the first n of doc2 that carry the tag and whose text  *)
(* no earlier token with the tag has                                       *)
FirstOccurrences(n, tag) ==
    {i \in 1 .. n :
        /\ doc2[i].pos_ = tag
        /\ \A j \in 1 .. i - 1 :
              doc2[j].pos_ = tag => doc2[j].text # doc2[i].text}

(* list holds the texts of those tokens, in the order of the tokens *)
HoldsFirstOccurrences(list, n, tag) ==
    /\ Len(list) = Cardinality(FirstOccurrences(n, tag))
    /\ \A k \in 1 .. Len(list) :
          \E i \in FirstOccurrences(n, tag) :
              /\ list[k] = doc2[i].text
              /\ Cardinality({j \in FirstOccurrences(n, tag) : j < i}) = k - 1

NoDuplicates(list) == \A i, j \in 1 .. Len(list) : list[i] = list[j] => i = j

(* How many tokens each loop has gone through *)
NounsTaken ==
    IF pc = "nouns" THEN item ELSE IF pc = "idle" THEN 0 ELSE Len(doc2)

AdjectivesTaken ==
    IF pc = "adjectives" THEN item ELSE IF pc = "done" THEN Len(doc2) ELSE 0

(* After every iteration each list holds the distinct texts of the tokens  *)
(* taken so far that carry its tag, once each, by first occurrence.        *)
PosListsExact ==
    /\ nouns.defined =>
          /\ HoldsFirstOccurrences(nouns.items, NounsTaken, "NOUN")
          /\ NoDuplicates(nouns.items)
          /\ Range(nouns.items) =
                {doc2[i].text : i \in {j \in 1 .. NounsTaken : doc2[j].pos_ = "NOUN"}}
    /\ adjectives.defined =>
          /\ HoldsFirstOccurrences(adjectives.items, AdjectivesTaken, "ADJ")
          /\ NoDuplicates(adjectives.items)
          /\ Range(adjectives.items) =
                {doc2[i].text : i \in {j \in 1 .. AdjectivesTaken : doc2[j].pos_ = "ADJ"}}
    /\ pc = "done" => stdout = <<nouns.items, adjectives.items>>

(* An iteration on a token whose tag is neither NOUN nor ADJ changes       *)
(* neither list; no iteration changes the list of the other loop or takes  *)
(* anything out of a list.                                                 *)
PosIterationChange ==
    (pc \in {"nouns", "adjectives"} /\ pc' = pc /\ item' = item + 1) =>
        /\ doc2[item + 1].pos_ \notin {"NOUN", "ADJ"} =>
              nouns' = nouns /\ adjectives' = adjectives
        /\ pc = "nouns" => adjectives' = adjectives
        /\ pc = "adjectives" => nouns' = nouns
        /\ SubSeq(nouns'.items, 1, Len(nouns.items)) = nouns.items
        /\ SubSeq(adjectives'.items, 1, Len(adjectives.items)) = adjectives.items

(* C18: for every token sequence the part-of-speech loops leave in nouns   *)
(* (and in adjectives) exactly the distinct texts of the tokens tagged     *)
(* NOUN (ADJ), each once, in the order of first occurrence; the list has   *)
(* no duplicates after any iteration, and a token with any other tag       *)
(* changes neither list.                                                   *)
C18_PosListsDistinctInOrder == []PosListsExact /\ [][PosIterationChange]_vars

C18_Witness ==
    /\ pc = "done"
    /\ \E i, j, k \in 1 .. Len(doc2) :
          /\ i < j
          /\ doc2[i].pos_ = "NOUN" /\ doc2[j].pos_ = "NOUN"
          /\ doc2[i].text = doc2[j].text
          /\ doc2[k].pos_ = "VERB"
    /\ Len(nouns.items) = 1
    /\ adjectives.items = <<>>
    /\ stdout = <<nouns.items, <<>> >>

(* Both lists end up filled, the same text in both *)
C18_BothLists ==
    /\ pc = "done"
    /\ Len(doc2) = MaxDocLen
    /\ nouns.items # <<>>
    /\ nouns.items = adjectives.items

=============================================================================
